---- MODULE Spec2Model ----
(***************************************************************************)
(* A model of the design-pattern canvas game: the Game singleton (score,   *)
(* timer, game-over flag, entity list), the one-second ticker, the mouse   *)
(* observer, the requestAnimationFrame loop and the Entity motion.         *)
(*                                                                         *)
(* Numbers.  Positions and velocities are JavaScript numbers.  The model   *)
(* keeps them as exact fixed-point integers in units of 1/Scale pixel;     *)
(* Scale = 10^4 makes four successive multiplications by 1.1 of a whole    *)
(* pixel velocity exact.  Click coordinates are whole pixels.              *)
(* The rounding of dx *= 1.1 itself is the subject of the double-precision *)
(* section, which computes the binary64 product bit for bit; the fixed      *)
(* point velocities stand for it wherever only motion and timing matter.    *)
(***************************************************************************)
EXTENDS Integers, Sequences, FiniteSets, TLC

VARIABLES
    entities,     \* Game.entities: sequence of entity records
    score,        \* Game.score
    timer,        \* Game.timer (seconds left)
    isGameOver,   \* Game.isGameOver
    colorOffset,  \* Game.colorOffset, in units of 0.005 (= number of draw() calls)
    isRunning,    \* Loop.isRunning
    pending,      \* number of requestAnimationFrame callbacks queued
    ticks,        \* history: number of ticker invocations so far
    boosts,       \* history: number of ticker invocations that ran the increaseSpeed loop
    removals,     \* history: number of clicks that removed an entity
    last,         \* history: the last event handled and its inputs
    snap,         \* history: the state before a spawning click, kept for one more click
    calls,        \* history: what the last Loop.step() invoked, in order
    hits,         \* history: how many entities the last click was within the radius of,
                  \*          and whether none of them was nearer than the first
    surface,      \* environment: what document.getElementById / getContext give
    instance,     \* Game.instance: 0 for undefined, else the number of the Game object
    constructions, \* number of times the Game constructor was entered
    tickers,      \* number of setInterval tickers registered
    listeners,    \* number of mouseup listeners attached
    returned,     \* history: the Game objects returned by getInstance(), in call order
    errors        \* history: number of getInstance() calls ended by an exception

startupVars == <<surface, instance, constructions, tickers, listeners, returned, errors>>

vars == <<entities, score, timer, isGameOver, colorOffset, isRunning, pending,
          ticks, boosts, removals, last, snap, calls, hits, startupVars>>

----------------------------------------------------------------------------
(* Program constants *)

InitialTimer == 120
BoostPeriod == 30
CanvasWidth == 512
CanvasHeight == 512
DefaultRadius == 20
HitPoints == 5
AddPoints == 1
Scale == 10000

ShapeTypes == {"CircleEntity", "SquareEntity", "TriangleEntity"}

(* Bounds of the model *)

MaxTicks == 122
MaxScore == 7
MaxEntities == 2
MaxDraws == 2
MaxPending == 2
MaxCalls == 3
MaxStartupTicks == 2
MaxBoosts == 4

\* What the page offers the constructor: the canvas and its 2d context, no
\* element with id "game", or a canvas whose getContext("2d") gives null.
Surfaces == {"ok", "noCanvas", "noContext"}

\* Click coordinates (whole pixels) offered to the mouse listener.
ClickPoints == {<<100, 100>>, <<115, 100>>, <<130, 100>>}

\* The random draws offered to a spawning click of Spec: the shape class picked
\* by addEntity and the values of Math.random() * 4 - 2 (pixels per frame).
\* The single-entity specification draws from all of ShapeTypes and EdgeSpeeds.
SpawnTypes == {"CircleEntity"}
Speeds == {<<1, -2>>}

\* Click coordinates and speeds of the single-entity specification: a shape in
\* contact with a bound, one pixel away from it, and far from it, on each axis.
EdgeCoords == {10, 21, 256, 491}
EdgeSpeeds == {<<-1, -1>>, <<-1, 1>>, <<1, -1>>, <<1, 1>>}

\* Colours offered by getRandomColor.
Colors == {"#2C5364"}

----------------------------------------------------------------------------
(* Entity *)

\* new ShapeClass(name, x, y, radius, color) with the two random speeds drawn
Entity(name, x, y, radius, color, dx, dy) ==
    [name |-> name, x |-> x, y |-> y, radius |-> radius, color |-> color,
     dx |-> dx, dy |-> dy]

\* mutant: the bounds are tested with < and > instead of <= and >=
update_strict(e, canvasWidth, canvasHeight) ==
    LET x == e.x + e.dx
        y == e.y + e.dy
    IN  [e EXCEPT !.x = x,
                  !.y = y,
                  !.dx = IF x - e.radius < 0 \/ x + e.radius > canvasWidth
                         THEN e.dx * (-1) ELSE e.dx,
                  !.dy = IF y - e.radius < 0 \/ y + e.radius > canvasHeight
                         THEN e.dy * (-1) ELSE e.dy]

\* Entity.update(canvasWidth, canvasHeight)
update(e, canvasWidth, canvasHeight) ==
    LET x == e.x + e.dx
        y == e.y + e.dy
    IN  [e EXCEPT !.x = x,
                  !.y = y,
                  !.dx = IF x - e.radius <= 0 \/ x + e.radius >= canvasWidth
                         THEN e.dx * (-1) ELSE e.dx,
                  !.dy = IF y - e.radius <= 0 \/ y + e.radius >= canvasHeight
                         THEN e.dy * (-1) ELSE e.dy]

\* x * 1.1 on fixed-point values (exact whenever 10 divides x)
Times11Tenths(x) == IF x >= 0 THEN (x * 11) \div 10 ELSE -(((-x) * 11) \div 10)

\* Entity.increaseSpeed()
increaseSpeed(e) ==
    [e EXCEPT !.dx = Times11Tenths(e.dx), !.dy = Times11Tenths(e.dy)]

----------------------------------------------------------------------------
(* Game *)

Abs(n) == IF n < 0 THEN -n ELSE n

\* a*a + b*b <= r*r on fixed-point values, computed in base Scale so that no
\* intermediate value leaves the 32-bit integers; r is a whole number of pixels.
SumSqLeq(a, b, r) ==
    LET a1 == Abs(a) \div Scale
        a0 == Abs(a) % Scale
        b1 == Abs(b) \div Scale
        b0 == Abs(b) % Scale
        r1 == r \div Scale
        lo == a0 * a0 + b0 * b0
        mid == 2 * a1 * a0 + 2 * b1 * b0 + (lo \div Scale)
        hi == a1 * a1 + b1 * b1 + (mid \div Scale)
    IN  \/ hi < r1 * r1
        \/ hi = r1 * r1 /\ mid % Scale = 0 /\ lo % Scale = 0

\* the findIndex predicate: Math.sqrt((x - e.x) ** 2 + (y - e.y) ** 2) <= e.radius
\* (the square root is monotone and exact on r*r, so the squares are compared)
Hit(e, x, y) == SumSqLeq(x - e.x, y - e.y, e.radius)

\* mutant: findLastIndex, the last index whose element is hit
findIndex_last(ents, x, y) ==
    IF \E i \in 1..Len(ents) : Hit(ents[i], x, y)
    THEN CHOOSE i \in 1..Len(ents) :
            /\ Hit(ents[i], x, y)
            /\ \A j \in (i + 1)..Len(ents) : ~Hit(ents[j], x, y)
    ELSE 0

\* Array.prototype.findIndex: the first index whose element is hit, 0 for JavaScript's -1
findIndex(ents, x, y) ==
    IF \E i \in 1..Len(ents) : Hit(ents[i], x, y)
    THEN CHOOSE i \in 1..Len(ents) :
            /\ Hit(ents[i], x, y)
            /\ \A j \in 1..(i - 1) : ~Hit(ents[j], x, y)
    ELSE 0

\* mutant: entities.shift() removes the oldest entity whatever the index
splice_shift(ents, index) == Tail(ents)

\* mutant: entities.splice(index) removes everything from the index on
splice_rest(ents, index) == SubSeq(ents, 1, index - 1)

\* entities.splice(index, 1)
splice(ents, index) ==
    [i \in 1..(Len(ents) - 1) |-> IF i < index THEN ents[i] ELSE ents[i + 1]]

\* mutant: the coordinates reach the constructor in the wrong order
addEntity_swapped(ents, x, y, name, color, dx, dy) ==
    Append(ents, Entity(name, y, x, DefaultRadius * Scale, color, dx, dy))

\* addEntity(x, y): entities.push(new ShapeClass(name, x, y, 20, color))
addEntity(ents, x, y, name, color, dx, dy) ==
    Append(ents, Entity(name, x, y, DefaultRadius * Scale, color, dx, dy))

\* mutant: a hit scores like an add
scoreAfterHit_add(s) == s + AddPoints

\* this.score += 5 after a hit
scoreAfterHit(s) == s + HitPoints

\* mutant: an add does not score
scoreAfterAdd_none(s) == s

\* this.score += 1 after an add
scoreAfterAdd(s) == s + AddPoints

\* mutant: handleMouseClick without its early return
clickIgnored_never(over) == FALSE

\* the early return of handleMouseClick
clickIgnored(over) == over

\* mutant: the ticker counts down without testing timer > 0
tickerCounts_unclamped(over, t) == ~over

\* the ticker's first branch condition
tickerCounts(over, t) == ~over /\ t > 0

\* this.timer--
tickerDecrement(t) == t - 1

\* mutant: no boost in the invocation that reaches 0
boostDue_positive(t) == t % BoostPeriod = 0 /\ t > 0

\* the ticker's boost condition, on the timer after the decrement
boostDue(t) == t % BoostPeriod = 0

\* mutant: the else-branch tests timer < 0, which the clamped timer never reaches
tickerFlag_negative(over, t) == IF t < 0 THEN TRUE ELSE over

\* mutant: the else-branch toggles the flag
tickerFlag_toggle(over, t) == IF t <= 0 THEN ~over ELSE over

\* the ticker's else-branch: the flag after an invocation that does not count down
tickerFlag(over, t) == IF t <= 0 THEN TRUE ELSE over

\* mutant: Game.update() without its early return
gameUpdate_always(ents, over) ==
    [i \in 1..Len(ents) |-> update(ents[i], CanvasWidth * Scale, CanvasHeight * Scale)]

\* Game.update(): nothing once the game is over, else every entity is updated
gameUpdate(ents, over) ==
    IF over THEN ents
    ELSE [i \in 1..Len(ents) |-> update(ents[i], CanvasWidth * Scale, CanvasHeight * Scale)]

\* Game.draw(): this.colorOffset += 0.005, the only field it assigns
draw(offset) == offset + 1

\* mutant: only the canvas is tested, a null context goes unnoticed
constructionFails_canvasOnly(s) == s = "noCanvas"

\* the constructor's test of the canvas and its context (a null canvas already
\* throws a TypeError at canvas.getContext)
constructionFails(s) == s # "ok"

\* mutant: getInstance constructs a Game on every call
needsConstruction_always(inst) == TRUE

\* getInstance's test: if (!Game.instance)
needsConstruction(inst) == inst = 0

----------------------------------------------------------------------------
(* History records *)

StepCalls == <<"update", "draw", "requestAnimationFrame">>

Event(op, x, y, res) == [op |-> op, x |-> x, y |-> y, res |-> res]

NoSnap == <<>>

\* the snapshot carried across a click at (x, y) whose outcome is res
snapAfterClick(x, y, res) ==
    IF snap # NoSnap /\ snap[1].stage = 1 /\ snap[1].x = x /\ snap[1].y = y
    THEN <<[snap[1] EXCEPT !.stage = 2]>>
    ELSE IF res = "spawn"
         THEN <<[entities |-> entities, score |-> score, x |-> x, y |-> y, stage |-> 1]>>
         ELSE NoSnap

\* the entities of ents that a click at (x, y) is within the radius of, in order
hitList(ents, x, y) == SelectSeq(ents, LAMBDA e : Hit(e, x, y))

\* a*a + b*b on fixed-point values as three digits in base Scale, highest first
SumSq(a, b) ==
    LET a1 == Abs(a) \div Scale
        a0 == Abs(a) % Scale
        b1 == Abs(b) \div Scale
        b0 == Abs(b) % Scale
        lo == a0 * a0 + b0 * b0
        mid == 2 * a1 * a0 + 2 * b1 * b0 + (lo \div Scale)
        hi == a1 * a1 + b1 * b1 + (mid \div Scale)
    IN  <<hi, mid % Scale, lo % Scale>>

\* the centre of e is strictly nearer to (x, y) than the centre of f
Nearer(e, f, x, y) ==
    LET d == SumSq(x - e.x, y - e.y)
        g == SumSq(x - f.x, y - f.y)
    IN  \/ d[1] < g[1]
        \/ d[1] = g[1] /\ d[2] < g[2]
        \/ d[1] = g[1] /\ d[2] = g[2] /\ d[3] < g[3]

NoHits == [n |-> 0, firstNearest |-> TRUE]

\* the record kept of a click at (x, y) on ents
hitInfo(ents, x, y) ==
    LET h == hitList(ents, x, y)
    IN  [n |-> Len(h),
         firstNearest |-> \A i \in 1..Len(h) : ~Nearer(h[i], h[1], x, y)]

----------------------------------------------------------------------------
(* The state after new Game(): fields initialised, loop.start() has run one
   step (update over no entities, one draw, one frame requested), the click
   listener and the ticker are registered. *)

Init ==
    /\ entities = <<>>
    /\ score = 0
    /\ timer = InitialTimer
    /\ isGameOver = FALSE
    /\ colorOffset = 1
    /\ isRunning = TRUE
    /\ pending = 1
    /\ ticks = 0
    /\ boosts = 0
    /\ removals = 0
    /\ last = Event("new", 0, 0, "none")
    /\ snap = NoSnap
    /\ calls = StepCalls
    /\ hits = NoHits
    /\ surface = "ok"
    /\ instance = 1
    /\ constructions = 1
    /\ tickers = 1
    /\ listeners = 1
    /\ returned = <<1>>
    /\ errors = 0

\* mutant: the boost test sits after the if / else instead of inside its first branch
Ticker_boostAfter ==
    /\ ticks < MaxTicks
    /\ ticks' = ticks + 1
    /\ IF tickerCounts(isGameOver, timer)
       THEN /\ timer' = tickerDecrement(timer)
            /\ UNCHANGED isGameOver
       ELSE /\ isGameOver' = tickerFlag(isGameOver, timer)
            /\ UNCHANGED timer
    /\ IF boostDue(timer')
       THEN /\ entities' = [i \in 1..Len(entities) |-> increaseSpeed(entities[i])]
            /\ boosts' = boosts + 1
       ELSE UNCHANGED <<entities, boosts>>
    /\ last' = Event("tick", 0, 0, "none")
    /\ snap' = NoSnap
    /\ calls' = <<>>
    /\ hits' = NoHits
    /\ UNCHANGED <<score, colorOffset, isRunning, pending, removals, startupVars>>

\* the setInterval callback
Ticker ==
    /\ ticks < MaxTicks
    /\ ticks' = ticks + 1
    /\ IF tickerCounts(isGameOver, timer)
       THEN /\ timer' = tickerDecrement(timer)
            /\ IF boostDue(timer')
               THEN /\ entities' = [i \in 1..Len(entities) |-> increaseSpeed(entities[i])]
                    /\ boosts' = boosts + 1
               ELSE UNCHANGED <<entities, boosts>>
            /\ UNCHANGED isGameOver
       ELSE /\ isGameOver' = tickerFlag(isGameOver, timer)
            /\ UNCHANGED <<timer, entities, boosts>>
    /\ last' = Event("tick", 0, 0, "none")
    /\ snap' = NoSnap
    /\ calls' = <<>>
    /\ hits' = NoHits
    /\ UNCHANGED <<score, colorOffset, isRunning, pending, removals, startupVars>>

\* the mouseup listener notifying its one observer: handleMouseClick(x, y)
handleMouseClick(x, y) ==
    IF clickIgnored(isGameOver)
    THEN /\ last' = Event("click", x, y, "ignored")
         /\ snap' = snapAfterClick(x, y, "ignored")
         /\ calls' = <<>>
         /\ hits' = NoHits
         /\ UNCHANGED <<entities, score, timer, isGameOver, colorOffset, isRunning,
                        pending, ticks, boosts, removals, startupVars>>
    ELSE LET index == findIndex(entities, x * Scale, y * Scale)
         IN  /\ calls' = <<>>
             /\ hits' = hitInfo(entities, x * Scale, y * Scale)
             /\ UNCHANGED startupVars
             /\ IF index # 0
                THEN /\ scoreAfterHit(score) <= MaxScore
                     /\ entities' = splice(entities, index)
                     /\ score' = scoreAfterHit(score)
                     /\ removals' = removals + 1
                     /\ last' = Event("click", x, y, "remove")
                     /\ snap' = snapAfterClick(x, y, "remove")
                ELSE /\ scoreAfterAdd(score) <= MaxScore
                     /\ Len(entities) < MaxEntities
                     /\ \E name \in SpawnTypes, color \in Colors, v \in Speeds :
                           entities' = addEntity(entities, x * Scale, y * Scale, name, color,
                                                 v[1] * Scale, v[2] * Scale)
                     /\ score' = scoreAfterAdd(score)
                     /\ UNCHANGED removals
                     /\ last' = Event("click", x, y, "spawn")
                     /\ snap' = snapAfterClick(x, y, "spawn")
             /\ UNCHANGED <<timer, isGameOver, colorOffset, isRunning, pending, ticks, boosts>>

MouseUp == \E p \in ClickPoints : handleMouseClick(p[1], p[2])

\* mutant: the next frame is requested before the running flag is tested
step_requestFirst(q) ==
    IF ~isRunning
    THEN /\ pending' = q + 1
         /\ calls' = <<"requestAnimationFrame">>
         /\ UNCHANGED <<entities, colorOffset>>
    ELSE /\ entities' = gameUpdate(entities, isGameOver)
         /\ colorOffset' = draw(colorOffset)
         /\ pending' = q + 1
         /\ calls' = <<"requestAnimationFrame", "update", "draw">>

\* mutant: draw() is called only while the game is not over
step_drawWhilePlaying(q) ==
    IF ~isRunning
    THEN /\ pending' = q
         /\ calls' = <<>>
         /\ UNCHANGED <<entities, colorOffset>>
    ELSE /\ entities' = gameUpdate(entities, isGameOver)
         /\ colorOffset' = IF isGameOver THEN colorOffset ELSE draw(colorOffset)
         /\ pending' = q + 1
         /\ calls' = IF isGameOver THEN <<"update", "requestAnimationFrame">> ELSE StepCalls

\* Loop.step(): the effect on the game and on the frame queue, q callbacks being queued
step(q) ==
    IF ~isRunning
    THEN /\ pending' = q
         /\ calls' = <<>>
         /\ UNCHANGED <<entities, colorOffset>>
    ELSE /\ entities' = gameUpdate(entities, isGameOver)
         /\ colorOffset' = draw(colorOffset)
         /\ pending' = q + 1
         /\ calls' = StepCalls

\* a queued requestAnimationFrame callback fires (the draw counter is capped
\* while the loop runs; a callback of a stopped loop always fires)
Frame ==
    /\ pending > 0
    /\ isRunning => colorOffset < MaxDraws
    /\ step(pending - 1)
    /\ last' = Event("frame", 0, 0, "none")
    /\ snap' = NoSnap
    /\ hits' = NoHits
    /\ UNCHANGED <<score, timer, isGameOver, isRunning, ticks, boosts, removals, startupVars>>

\* Game.start(): loop.start() sets the flag and runs a step at once
Start ==
    /\ pending < MaxPending
    /\ colorOffset < MaxDraws
    /\ isRunning' = TRUE
    /\ entities' = gameUpdate(entities, isGameOver)
    /\ colorOffset' = draw(colorOffset)
    /\ pending' = pending + 1
    /\ calls' = StepCalls
    /\ last' = Event("start", 0, 0, "none")
    /\ snap' = NoSnap
    /\ hits' = NoHits
    /\ UNCHANGED <<score, timer, isGameOver, ticks, boosts, removals, startupVars>>

\* mutant: stop() compares the flag instead of clearing it
Stop_compare ==
    /\ last' = Event("stop", 0, 0, "none")
    /\ snap' = NoSnap
    /\ calls' = <<>>
    /\ hits' = NoHits
    /\ UNCHANGED <<entities, score, timer, isGameOver, colorOffset, isRunning, pending,
                   ticks, boosts, removals, startupVars>>

\* Loop.stop()
Stop ==
    /\ isRunning' = FALSE
    /\ last' = Event("stop", 0, 0, "none")
    /\ snap' = NoSnap
    /\ calls' = <<>>
    /\ hits' = NoHits
    /\ UNCHANGED <<entities, score, timer, isGameOver, colorOffset, pending, ticks, boosts,
                   removals, startupVars>>

Next == Ticker \/ MouseUp \/ Frame \/ Start

Spec == Init /\ [][Next]_vars

\* setInterval keeps invoking its callback: the ticker is never starved
SpecFair == Spec /\ WF_vars(Ticker)

----------------------------------------------------------------------------
(* The startup specification: the page before the entry point has run.  Nothing
   is registered yet; getInstance() may be called any number of times, and the
   handlers run only once the constructor has registered them. *)

InitStartup ==
    /\ surface \in Surfaces
    /\ instance = 0
    /\ constructions = 0
    /\ tickers = 0
    /\ listeners = 0
    /\ returned = <<>>
    /\ errors = 0
    /\ entities = <<>>
    /\ score = 0
    /\ timer = InitialTimer
    /\ isGameOver = FALSE
    /\ colorOffset = 0
    /\ isRunning = FALSE
    /\ pending = 0
    /\ ticks = 0
    /\ boosts = 0
    /\ removals = 0
    /\ last = Event("load", 0, 0, "none")
    /\ snap = NoSnap
    /\ calls = <<>>
    /\ hits = NoHits

\* Game.getInstance(): constructs the Game when none is recorded.  The
\* constructor throws before it registers anything when the surface is missing;
\* otherwise it initialises the fields, attaches the listener, runs loop.start()
\* and registers the ticker, and only then is the instance recorded.
GetInstance ==
    /\ Len(returned) + errors < MaxCalls
    /\ last' = Event("getInstance", 0, 0, "none")
    /\ snap' = NoSnap
    /\ hits' = NoHits
    /\ UNCHANGED surface
    /\ IF needsConstruction(instance)
       THEN /\ constructions' = constructions + 1
            /\ IF constructionFails(surface)
               THEN /\ errors' = errors + 1
                    /\ calls' = <<>>
                    /\ UNCHANGED <<instance, tickers, listeners, returned, entities, score,
                                   timer, isGameOver, colorOffset, isRunning, pending,
                                   ticks, boosts, removals>>
               ELSE /\ entities' = <<>>
                    /\ score' = 0
                    /\ timer' = InitialTimer
                    /\ isGameOver' = FALSE
                    /\ listeners' = listeners + 1
                    /\ isRunning' = TRUE
                    /\ colorOffset' = draw(0)
                    /\ pending' = pending + 1
                    /\ calls' = StepCalls
                    /\ tickers' = tickers + 1
                    /\ instance' = constructions'
                    /\ returned' = Append(returned, instance')
                    /\ UNCHANGED <<errors, ticks, boosts, removals>>
       ELSE /\ returned' = Append(returned, instance)
            /\ calls' = <<>>
            /\ UNCHANGED <<instance, constructions, tickers, listeners, errors, entities,
                           score, timer, isGameOver, colorOffset, isRunning, pending,
                           ticks, boosts, removals>>

\* the entry point's game.start(), possible once an instance was returned
StartupStart == instance # 0 /\ Start

\* the registered handlers
StartupTicker == tickers > 0 /\ ticks < MaxStartupTicks /\ Ticker
StartupMouseUp == listeners > 0 /\ MouseUp

NextStartup == GetInstance \/ StartupStart \/ StartupTicker \/ StartupMouseUp \/ Frame

SpecStartup == InitStartup /\ [][NextStartup]_vars

----------------------------------------------------------------------------
(* The single-entity specification: the game right after its first click has
   spawned a shape at a chosen place with chosen speeds; frames then advance
   the shape. *)

InitEntity ==
    /\ \E x \in EdgeCoords, y \in EdgeCoords, v \in EdgeSpeeds, name \in ShapeTypes,
          color \in Colors :
          /\ entities = addEntity(<<>>, x * Scale, y * Scale, name, color,
                                  v[1] * Scale, v[2] * Scale)
          /\ last = Event("click", x, y, "spawn")
          /\ snap = <<[entities |-> <<>>, score |-> 0, x |-> x, y |-> y, stage |-> 1]>>
    /\ score = scoreAfterAdd(0)
    /\ timer = InitialTimer
    /\ isGameOver = FALSE
    /\ colorOffset = 1
    /\ isRunning = TRUE
    /\ pending = 1
    /\ ticks = 0
    /\ boosts = 0
    /\ removals = 0
    /\ calls = <<>>
    /\ hits = NoHits
    /\ surface = "ok"
    /\ instance = 1
    /\ constructions = 1
    /\ tickers = 1
    /\ listeners = 1
    /\ returned = <<1>>
    /\ errors = 0

NextEntity == Frame

SpecEntity == InitEntity /\ [][NextEntity]_vars

----------------------------------------------------------------------------
(* The scheduler specification: the Loop of a game holding one shape, driven by
   frames and by any calls of its start() and stop(). *)

NextLoop == Frame \/ Start \/ Stop

SpecLoop == InitEntity /\ [][NextLoop]_vars

\* the host fires every requested animation frame
SpecLoopFair == SpecLoop /\ WF_vars(Frame)

----------------------------------------------------------------------------
(* Double-precision velocities.  dx *= 1.1 is a multiplication of IEEE-754
   binary64 numbers.  A natural number is a sequence of bits, least significant
   first; a double is a sign, a significand of SigBits bits (leading bit 1, or
   all 0 for zero) and an exponent: its magnitude is sig * 2^(exp - 52).
   Velocities stay far from the subnormal and the overflow range. *)

SigBits == 53

Bit(v, i) == IF i \in 1..Len(v) THEN v[i] ELSE 0

\* the w low bits of n, n < 2^30
Bits(n, w) == [i \in 1..w |-> IF i > 30 THEN 0 ELSE (n \div (2 ^ (i - 1))) % 2]

BitLen(v) ==
    IF \A i \in 1..Len(v) : v[i] = 0 THEN 0
    ELSE CHOOSE i \in 1..Len(v) : v[i] = 1 /\ \A j \in (i + 1)..Len(v) : v[j] = 0

ShiftLeft(v, d) == [i \in 1..(Len(v) + d) |-> IF i > d THEN v[i - d] ELSE 0]

\* Sums and products are computed on limbs of LimbBits bits, least significant first
LimbBits == 14

LimbBase == 2 ^ LimbBits

RECURSIVE LimbFrom(_, _, _)
LimbFrom(v, lo, t) ==
    IF t = LimbBits THEN 0 ELSE Bit(v, lo + t) + 2 * LimbFrom(v, lo, t + 1)

Limbs(v) ==
    [j \in 1..((Len(v) + LimbBits - 1) \div LimbBits) |-> LimbFrom(v, LimbBits * (j - 1) + 1, 0)]

BitsOfLimbs(w, n) ==
    [i \in 1..n |-> (w[((i - 1) \div LimbBits) + 1] \div (2 ^ ((i - 1) % LimbBits))) % 2]

Limb(w, j) == IF j \in 1..Len(w) THEN w[j] ELSE 0

RECURSIVE SumFrom(_, _, _, _, _)
SumFrom(a, b, j, n, carry) ==
    IF j > n THEN <<>>
    ELSE LET s == Limb(a, j) + Limb(b, j) + carry
         IN  <<s % LimbBase>> \o SumFrom(a, b, j + 1, n, s \div LimbBase)

\* u + v, one bit longer than the longer of the two
Sum(u, v) ==
    LET n == (IF Len(u) > Len(v) THEN Len(u) ELSE Len(v)) + 1
    IN  BitsOfLimbs(SumFrom(Limbs(u), Limbs(v), 1, (n + LimbBits - 1) \div LimbBits, 0), n)

RECURSIVE Column(_, _, _, _)
Column(a, b, i, j) ==
    IF j > Len(a) THEN 0 ELSE a[j] * Limb(b, i - j + 1) + Column(a, b, i, j + 1)

RECURSIVE ProductFrom(_, _, _, _)
ProductFrom(a, b, i, carry) ==
    IF i > Len(a) + Len(b) THEN <<>>
    ELSE LET s == Column(a, b, i, 1) + carry
         IN  <<s % LimbBase>> \o ProductFrom(a, b, i + 1, s \div LimbBase)

\* u * v, as long as the two together
Product(u, v) == BitsOfLimbs(ProductFrom(Limbs(u), Limbs(v), 1, 0), Len(u) + Len(v))

Equal(u, v) == \A i \in 1..(Len(u) + Len(v)) : Bit(u, i) = Bit(v, i)

Less(u, v) ==
    \E i \in 1..(Len(u) + Len(v)) :
        /\ Bit(u, i) < Bit(v, i)
        /\ \A j \in (i + 1)..(Len(u) + Len(v)) : Bit(u, j) = Bit(v, j)

Double(neg, sig, exp) == [neg |-> neg, sig |-> sig, exp |-> exp]

\* the double k / 4, for a small integer k
Quarters(k) ==
    LET a == IF k < 0 THEN -k ELSE k
        p == BitLen(Bits(a, 8))
    IN  IF a = 0 THEN Double(FALSE, Bits(0, SigBits), 0)
        ELSE Double(k < 0, ShiftLeft(Bits(a, p), SigBits - p), p - 3)

\* the literal 1.1: the double 0x1.199999999999Ap+0, hexadecimal digits of its
\* significand from the most significant
HexOnePointOne == <<1, 1, 9, 9, 9, 9, 9, 9, 9, 9, 9, 9, 9, 10>>

OnePointOne ==
    Double(FALSE,
           [i \in 1..SigBits |->
               (HexOnePointOne[14 - ((i - 1) \div 4)] \div (2 ^ ((i - 1) % 4))) % 2],
           0)

\* a * b on doubles: the exact product rounded to the nearest double, ties to even
Times(a, b) ==
    LET P == Product(a.sig, b.sig)
        L == BitLen(P)
        s == L - SigBits
        q == [i \in 1..SigBits |-> P[i + s]]
        up == /\ P[s] = 1
              /\ (q[1] = 1 \/ \E i \in 1..(s - 1) : P[i] = 1)
        r == IF up THEN Sum(q, <<1>>) ELSE q
        carry == Bit(r, SigBits + 1) = 1
    IN  IF L = 0 THEN Double(a.neg # b.neg, Bits(0, SigBits), 0)
        ELSE Double(a.neg # b.neg,
                    [i \in 1..SigBits |-> IF carry THEN r[i + 1] ELSE r[i]],
                    a.exp + b.exp + (L - 105) + (IF carry THEN 1 ELSE 0))

\* mutant: only the horizontal speed is multiplied
increaseSpeedDouble_dxOnly(e) == [e EXCEPT !.dx = Times(e.dx, OnePointOne)]

\* Entity.increaseSpeed() on double-precision velocities
increaseSpeedDouble(e) ==
    [e EXCEPT !.dx = Times(e.dx, OnePointOne), !.dy = Times(e.dy, OnePointOne)]

\* velocities Math.random() * 4 - 2 can give, in quarters of a pixel per frame
BoostQuarters == {-8, -5, -3, 0, 1, 4, 7}

InitBoost ==
    /\ \E kx \in BoostQuarters, ky \in BoostQuarters :
          entities = addEntity(<<>>, 100 * Scale, 100 * Scale, "CircleEntity", "#2C5364",
                               Quarters(kx), Quarters(ky))
    /\ last = Event("click", 100, 100, "spawn")
    /\ snap = NoSnap
    /\ score = scoreAfterAdd(0)
    /\ timer = InitialTimer
    /\ isGameOver = FALSE
    /\ colorOffset = 1
    /\ isRunning = TRUE
    /\ pending = 1
    /\ ticks = 0
    /\ boosts = 0
    /\ removals = 0
    /\ calls = <<>>
    /\ hits = NoHits
    /\ surface = "ok"
    /\ instance = 1
    /\ constructions = 1
    /\ tickers = 1
    /\ listeners = 1
    /\ returned = <<1>>
    /\ errors = 0

\* the ticker's entities.forEach(entity => entity.increaseSpeed())
Boost ==
    /\ boosts < MaxBoosts
    /\ entities' = [i \in 1..Len(entities) |-> increaseSpeedDouble(entities[i])]
    /\ boosts' = boosts + 1
    /\ last' = Event("boost", 0, 0, "none")
    /\ snap' = NoSnap
    /\ calls' = <<>>
    /\ hits' = NoHits
    /\ UNCHANGED <<score, timer, isGameOver, colorOffset, isRunning, pending, ticks,
                   removals, startupVars>>

NextBoost == Boost

SpecBoost == InitBoost /\ [][NextBoost]_vars

----------------------------------------------------------------------------
(* Claims *)

\* the entities hit by a click at whole-pixel coordinates (x, y)
HitSet(ents, x, y) == {i \in 1..Len(ents) : Hit(ents[i], x * Scale, y * Scale)}

\* a sequence without its i-th element
RemoveAt(ents, i) == SubSeq(ents, 1, i - 1) \o SubSeq(ents, i + 1, Len(ents))

\* the step is a click handled while the flag is clear
PlayingClick == last'.op = "click" /\ ~isGameOver

\* C1: the game-over flag is true exactly when the timer is 0, and it is true
\* once the ticker has been invoked 120 times.
C1_GameOverExactlyAtZero ==
    /\ isGameOver <=> (timer = 0)
    /\ ticks = InitialTimer => isGameOver

\* C2: every step leaves the score unchanged, or raises it by exactly 1 in a
\* click that adds a shape, or by exactly 5 in a click that removes one.
C2_ScoreOnlyIncreases ==
    [][\/ score' = score
       \/ /\ score' = score + 1
          /\ last'.op = "click" /\ last'.res = "spawn"
          /\ Len(entities') = Len(entities) + 1
       \/ /\ score' = score + 5
          /\ last'.op = "click" /\ last'.res = "remove"
          /\ Len(entities') = Len(entities) - 1]_vars

C2_Witness ==
    /\ last.op = "click" /\ last.res = "remove"
    /\ score = 7

\* C3: the timer stays in 0..120; a ticker invocation while playing with
\* timer > 0 decreases it by exactly 1; no other event changes it.
C3_TimerCountsDown ==
    /\ [](timer \in 0..InitialTimer)
    /\ [][/\ (last'.op = "tick" /\ ~isGameOver /\ timer > 0) => timer' = timer - 1
          /\ timer' # timer => last'.op = "tick"
          /\ last'.op # "tick" => timer' = timer]_vars

C3_Witness ==
    /\ last.op = "tick"
    /\ timer = 0
    /\ ticks = InitialTimer

\* C4: once the game-over flag is true, no step makes it false again.
C4_GameOverOneWay == [][isGameOver => isGameOver']_vars

C4_Witness ==
    /\ isGameOver
    /\ last.op \in {"frame", "start"}

\* C5: a ticker invocation boosts every entity exactly when the timer after its
\* decrement is 90, 60, 30 or 0; no other step boosts; the boosts so far are
\* one per 30 seconds elapsed, 4 once the game is over.
C5_BoostEveryThirty ==
    /\ [](boosts = (InitialTimer - timer) \div BoostPeriod)
    /\ [](isGameOver => boosts = 4)
    /\ [][LET fire == /\ last'.op = "tick"
                      /\ timer' = timer - 1
                      /\ timer' \in {90, 60, 30, 0}
          IN  /\ fire =>
                   /\ boosts' = boosts + 1
                   /\ Len(entities') = Len(entities)
                   /\ \A i \in 1..Len(entities) :
                         /\ entities'[i].dx * 10 = entities[i].dx * 11
                         /\ entities'[i].dy * 10 = entities[i].dy * 11
                         /\ entities'[i] = [entities[i] EXCEPT !.dx = entities'[i].dx,
                                                               !.dy = entities'[i].dy]
              /\ ~fire =>
                   /\ boosts' = boosts
                   /\ last'.op = "tick" => entities' = entities]_vars

C5_Witness ==
    /\ isGameOver
    /\ boosts = 4
    /\ Len(entities) > 0
    /\ entities[1].dx = 14641

\* C6: while playing, a click within the radius of no entity appends exactly one
\* entity centred at the click with radius 20, keeps the others, and adds 1 to
\* the score.
C6_ClickOnEmptySpaceAdds ==
    [][(PlayingClick /\ HitSet(entities, last'.x, last'.y) = {}) =>
          /\ Len(entities') = Len(entities) + 1
          /\ SubSeq(entities', 1, Len(entities)) = entities
          /\ entities'[Len(entities')].x = last'.x * Scale
          /\ entities'[Len(entities')].y = last'.y * Scale
          /\ entities'[Len(entities')].radius = 20 * Scale
          /\ score' = score + 1]_vars

C6_Witness ==
    /\ last.op = "click" /\ last.res = "spawn"
    /\ Len(entities) = 2
    /\ last.x # last.y

\* C7: while playing, a click within the radius of some entity removes one entity
\* that it is within the radius of, adds 5 to the score, shrinks the collection
\* by exactly 1 and adds no entity.
C7_ClickOnShapeRemoves ==
    [][(PlayingClick /\ HitSet(entities, last'.x, last'.y) # {}) =>
          /\ \E i \in HitSet(entities, last'.x, last'.y) : entities' = RemoveAt(entities, i)
          /\ Len(entities') = Len(entities) - 1
          /\ score' = score + 5]_vars

C7_Witness ==
    /\ last.op = "click" /\ last.res = "remove"
    /\ Len(entities) = 1
    /\ Hit(entities[1], last.x * Scale, last.y * Scale)

\* C8: once the game-over flag is true, a click changes neither the score nor
\* the collection.
C8_ClickAfterGameOver ==
    [][(isGameOver /\ last'.op = "click") =>
          /\ entities' = entities
          /\ score' = score]_vars

C8_Witness ==
    /\ isGameOver
    /\ last.op = "click"
    /\ Len(entities) > 0
    /\ Hit(entities[1], last.x * Scale, last.y * Scale)

\* C9: a click that adds a shape followed at once by a click at the same point
\* removes that shape: the collection is as before the two clicks and the score
\* is 6 higher.
C9_SpawnThenHitRoundTrip ==
    (snap # NoSnap /\ snap[1].stage = 2) =>
        /\ last.op = "click" /\ last.res = "remove"
        /\ entities = snap[1].entities
        /\ score = snap[1].score + 6

C9_Witness ==
    /\ snap # NoSnap
    /\ snap[1].stage = 2
    /\ Len(snap[1].entities) = 1

\* C10: one update moves the entity by its velocity, then flips each velocity
\* component exactly when the moved entity touches or crosses a bound of that
\* axis, and leaves the component alone otherwise.
C10_AdvanceMovesAndBounces ==
    [][(last'.op = "frame" /\ isRunning /\ ~isGameOver) =>
          /\ Len(entities') = Len(entities)
          /\ \A i \in 1..Len(entities) :
                LET e == entities[i]
                    f == entities'[i]
                    touchX == f.x - f.radius <= 0 \/ f.x + f.radius >= 512 * Scale
                    touchY == f.y - f.radius <= 0 \/ f.y + f.radius >= 512 * Scale
                IN  /\ f.x = e.x + e.dx
                    /\ f.y = e.y + e.dy
                    /\ f.dx = IF touchX THEN -e.dx ELSE e.dx
                    /\ f.dy = IF touchY THEN -e.dy ELSE e.dy
                    /\ f.radius = e.radius]_vars

\* a corner contact: both components were flipped by the frame just run
C10_Witness ==
    /\ last.op = "frame"
    /\ Len(entities) = 1
    /\ entities[1].x - entities[1].radius = 0
    /\ entities[1].dx > 0
    /\ entities[1].y + entities[1].radius = 512 * Scale
    /\ entities[1].dy < 0

\* C11: with the ticker never starved, every session reaches game over, and it
\* has done so once the ticker has run more than 120 times, whatever clicks,
\* frames and start() calls came in between.
C11_EventuallyGameOver ==
    /\ <>isGameOver
    /\ [](ticks > InitialTimer => isGameOver)

C11_Witness ==
    /\ isGameOver
    /\ ticks = InitialTimer + 1
    /\ score = 7
    /\ colorOffset > 1

\* C12: every getInstance() call that returns gives the same Game object, the
\* constructor has then run exactly once, and one ticker and one click listener
\* exist; there is never more than one of either.
C12_Singleton ==
    /\ tickers <= 1
    /\ listeners <= 1
    /\ \A i \in 1..Len(returned) : returned[i] = returned[1] /\ returned[i] = instance
    /\ Len(returned) >= 1 =>
          /\ constructions = 1
          /\ tickers = 1
          /\ listeners = 1

C12_Witness ==
    /\ Len(returned) = 3
    /\ ticks > 0
    /\ score > 0

\* C13: when the canvas or its context cannot be acquired, every getInstance()
\* call raises an error, and no frame loop runs, no ticker and no listener is
\* registered and no instance is recorded.
C13_ConstructionFailsCleanly ==
    surface # "ok" =>
        /\ errors = constructions
        /\ Len(returned) = 0
        /\ instance = 0
        /\ tickers = 0
        /\ listeners = 0
        /\ ~isRunning
        /\ pending = 0
        /\ colorOffset = 0
        /\ ticks = 0

C13_Witness ==
    /\ surface = "noContext"
    /\ last.op = "getInstance"
    /\ errors >= 1

\* the magnitude of the double d in units of 2^(base - 52), base <= d.exp
Mag(d, base) == ShiftLeft(d.sig, d.exp - base)

\* n = o * 11/10 as rational numbers, sign included
ExactlyElevenTenths(o, n) ==
    /\ n.neg = o.neg
    /\ Equal(Product(Mag(n, o.exp), Bits(10, 4)), Product(Mag(o, o.exp), Bits(11, 4)))

\* |n - o * 11/10| is less than two units in the last place of n, sign kept
WithinTwoUlps(o, n) ==
    LET X == Product(Mag(o, o.exp), Bits(11, 4))
        N == Product(Mag(n, o.exp), Bits(10, 4))
        U == Product(ShiftLeft(<<1>>, n.exp - o.exp), Bits(20, 5))
    IN  /\ n.neg = o.neg
        /\ n.exp >= o.exp
        /\ Less(N, Sum(X, U))
        /\ Less(X, Sum(N, U))

\* f is e but for its two speeds
SpeedsOnly(e, f) == f = [e EXCEPT !.dx = f.dx, !.dy = f.dy]

\* C14 as stated: increaseSpeed multiplies both speeds by exactly 11/10 for every
\* prior value, keeps the sign of a negative speed and leaves position, radius
\* and colour unchanged.
C14_ExactlyElevenTenths ==
    [][last'.op = "boost" =>
          /\ Len(entities') = Len(entities)
          /\ \A i \in 1..Len(entities) :
                /\ ExactlyElevenTenths(entities[i].dx, entities'[i].dx)
                /\ ExactlyElevenTenths(entities[i].dy, entities'[i].dy)
                /\ SpeedsOnly(entities[i], entities'[i])]_vars

\* C14 amended: increaseSpeed multiplies both speeds by the double 1.1 and rounds
\* each product to a double, which lies within two units in the last place of
\* 11/10 of the prior speed; the sign is kept, and position, radius and colour
\* are unchanged.
C14_RoundedElevenTenths ==
    [][last'.op = "boost" =>
          /\ Len(entities') = Len(entities)
          /\ \A i \in 1..Len(entities) :
                /\ WithinTwoUlps(entities[i].dx, entities'[i].dx)
                /\ WithinTwoUlps(entities[i].dy, entities'[i].dy)
                /\ SpeedsOnly(entities[i], entities'[i])]_vars

\* a negative speed was boosted once: still negative, near 11/10 of it, not equal
C14_Witness ==
    /\ last.op = "boost"
    /\ boosts = 1
    /\ \E k \in BoostQuarters :
          /\ k < 0
          /\ entities[1].dx.neg
          /\ WithinTwoUlps(Quarters(k), entities[1].dx)
          /\ ~ExactlyElevenTenths(Quarters(k), entities[1].dx)

\* the step is a Loop.step() that runs: a start(), or a frame of a running loop
RunningStep == last'.op = "start" \/ (last'.op = "frame" /\ isRunning)

\* f is e moved by one update: position plus velocity, each speed kept or negated
Advanced(e, f) ==
    /\ f.x = e.x + e.dx
    /\ f.y = e.y + e.dy
    /\ f.dx \in {e.dx, -e.dx}
    /\ f.dy \in {e.dy, -e.dy}
    /\ f = [e EXCEPT !.x = f.x, !.y = f.y, !.dx = f.dx, !.dy = f.dy]

\* C15: once the game-over flag is true a step changes no entity; while playing,
\* one step advances every entity of the collection exactly once.
C15_UpdateStopsAtGameOver ==
    [][RunningStep =>
          /\ Len(entities') = Len(entities)
          /\ isGameOver => entities' = entities
          /\ ~isGameOver => \A i \in 1..Len(entities) : Advanced(entities[i], entities'[i])]_vars

C15_Witness ==
    /\ isGameOver
    /\ last.op = "frame"
    /\ Len(entities) = 2

\* C16: a click within the radius of several entities removes exactly the one
\* earliest in the collection among them, whichever is nearest, and keeps the
\* others in their order.
C16_FirstHitIsRemoved ==
    [][(PlayingClick /\ Cardinality(HitSet(entities, last'.x, last'.y)) >= 2) =>
          LET H == HitSet(entities, last'.x, last'.y)
              first == CHOOSE i \in H : \A j \in H : i <= j
          IN  /\ entities' = RemoveAt(entities, first)
              /\ score' = score + 5]_vars

\* two entities were hit and the one removed was not the nearest
C16_Witness ==
    /\ last.op = "click" /\ last.res = "remove"
    /\ hits.n = 2
    /\ ~hits.firstNearest

\* C17: a step of a running loop calls update, then draw, then requests exactly
\* one frame; a step of a stopped loop calls nothing and requests no frame.
C17_StepOrder ==
    [][last'.op = "frame" =>
          IF isRunning
          THEN /\ calls' = <<"update", "draw", "requestAnimationFrame">>
               /\ pending' = pending
               /\ colorOffset' = colorOffset + 1
               /\ \A i \in 1..Len(entities) : Advanced(entities[i], entities'[i])
          ELSE /\ calls' = <<>>
               /\ pending' = pending - 1
               /\ colorOffset' = colorOffset
               /\ entities' = entities]_vars

C17_Witness ==
    /\ last.op = "frame"
    /\ isRunning
    /\ calls = <<"update", "draw", "requestAnimationFrame">>
    /\ colorOffset = 2
    /\ pending = 1

\* C18: stop() clears the flag; while it stays clear no step calls update or
\* draw or requests a frame, and the queued callbacks drain: eventually none is
\* pending, unless start() is called again.
C18_StopDrainsTheLoop ==
    /\ [][last'.op = "stop" => ~isRunning']_vars
    /\ [][(~isRunning /\ ~isRunning') =>
             /\ calls' = <<>>
             /\ colorOffset' = colorOffset
             /\ entities' = entities
             /\ pending' <= pending]_vars
    /\ (~isRunning ~> (pending = 0 \/ isRunning))

C18_Witness ==
    /\ ~isRunning
    /\ pending = 0
    /\ last.op = "frame"
    /\ colorOffset = 2

\* C19: once the game-over flag is true, a ticker invocation changes nothing of
\* the session: the timer stays 0, the flag true, no entity is boosted, the
\* score and the collection are untouched.
C19_TickerAfterGameOver ==
    [][(isGameOver /\ last'.op = "tick") =>
          /\ timer = 0 /\ timer' = 0
          /\ isGameOver'
          /\ entities' = entities
          /\ boosts' = boosts
          /\ score' = score
          /\ <<colorOffset, isRunning, pending>>' = <<colorOffset, isRunning, pending>>]_vars

C19_Witness ==
    /\ isGameOver
    /\ last.op = "tick"
    /\ ticks = InitialTimer + 2
    /\ Len(entities) > 0

\* C20: every running step draws, game over or not: the background phase grows
\* by one increment, and score, timer, flag and membership are unchanged; the
\* entities change by the update of that step alone (not at all once the game
\* is over).
C20_DrawIsCosmetic ==
    [][RunningStep =>
          /\ colorOffset' = colorOffset + 1
          /\ score' = score
          /\ timer' = timer
          /\ isGameOver' = isGameOver
          /\ Len(entities') = Len(entities)
          /\ \A i \in 1..Len(entities) :
                IF isGameOver THEN entities'[i] = entities[i]
                ELSE Advanced(entities[i], entities'[i])]_vars

C20_Witness ==
    /\ isGameOver
    /\ last.op = "frame"
    /\ calls = <<"update", "draw", "requestAnimationFrame">>
    /\ colorOffset = 2
    /\ score > 0

\* C21: at any moment at most one frame callback of the loop is queued,
\* whatever start() and stop() calls were made, the constructor's start()
\* followed by the entry point's game.start() included.
C21_AtMostOnePendingFrame == pending <= 1

\* after one more addition of its velocity, e touches or is beyond a bound of the axis
NextTouchesX(e) ==
    \/ e.x + e.dx - e.radius <= 0
    \/ e.x + e.dx + e.radius >= CanvasWidth * Scale

NextTouchesY(e) ==
    \/ e.y + e.dy - e.radius <= 0
    \/ e.y + e.dy + e.radius >= CanvasHeight * Scale

\* C22: whenever an advance flips a velocity component of an entity, the next
\* advance does not flip that component again (its moved position is clear of
\* the bounds of that axis); this for every entity, one spawned nearer than its
\* radius to an edge included.
C22_BounceLeavesTheEdge ==
    [][(last'.op = "frame" /\ isRunning /\ ~isGameOver) =>
          \A i \in 1..Len(entities) :
              /\ entities'[i].dx = -entities[i].dx => ~NextTouchesX(entities'[i])
              /\ entities'[i].dy = -entities[i].dy => ~NextTouchesY(entities'[i])]_vars

\* C23: in every reachable state the score minus the number of entities in the
\* collection is 6 times the number of removals so far; so the score is at
\* least the size of the collection and congruent to it modulo 6.
C23_ScoreCountsTheCollection ==
    /\ score - Len(entities) = 6 * removals
    /\ score >= Len(entities)
    /\ (score - Len(entities)) % 6 = 0

\* a removal, then an add, with ticks and frames in between
C23_Witness ==
    /\ removals = 1
    /\ Len(entities) = 1
    /\ score = 7
    /\ ticks > 0
    /\ colorOffset > 1

====
